---- MODULE Spec2Model ----
(***************************************************************************)
(* Website analytics API: the analytics routes (routes/analytics.js, kept  *)
(* in src/routes/auth.js lines 125-364), the API-key middleware            *)
(* (src/unnamed/part_000) and the stand-alone server (src/unnamed/part_003)*)
(* modelled over PostgreSQL tables and a Redis cache.                      *)
(*                                                                         *)
(* Absent request fields and SQL NULL are the empty string "" (falsy in    *)
(* JavaScript, like undefined).  Time is in seconds.                       *)
(***************************************************************************)
EXTENDS Integers, Sequences, FiniteSets, TLC

VARIABLES
    events,        \* table analytics_events, in event_id order
    legacyEvents,  \* table events of the stand-alone server
    cache,         \* Redis: key |-> [data, exp, ...]
    now,           \* wall clock, seconds
    slots,         \* requests in flight: where each handler is suspended
    ackedAt,       \* history: when the collect of each row reported success (-1: not yet)
    last,          \* history: the most recent response sent to a caller
    apps,          \* table apps: one row per application, the key stored hashed
    issued         \* history: every API key handed out, with what became of it

vars == <<events, legacyEvents, cache, now, slots, ackedAt, last, apps, issued>>

----------------------------------------------------------------------------
(* Bounds of the model *)

MaxEvents == 1      \* rows inserted while the servers run, both tables together
MaxRows == 2        \* rows of a table given at the start
MaxTicks == 2       \* clock ticks
MaxSeries == 102    \* rows of a table of hourly events given at the start
MaxKeys == 2        \* keys drawn by regenerate

(* Program constants *)

SummaryTtl == 300
UserStatsTtl == 600
TimeSeriesLimit == 100

TickSeconds == (2 * SummaryTtl) \div 3
NULL == ""

\* One collect and one query can be in flight at a time
Writers == {"w"}
Readers == {"q"}
Slots == Writers \cup Readers

----------------------------------------------------------------------------
(* Registered applications.  app_id is kept as the text that the template  *)
(* strings and the query string carry.                                     *)

Sha256(k) == "sha256:" \o k

Registry ==
    { [api_key |-> "kA", app_id |-> "1", is_active |-> TRUE,  expires_at |-> 31536000],
      [api_key |-> "kB", app_id |-> "2", is_active |-> TRUE,  expires_at |-> 31536000],
      [api_key |-> "kRevoked", app_id |-> "3", is_active |-> FALSE, expires_at |-> 31536000],
      [api_key |-> "kExpired", app_id |-> "4", is_active |-> TRUE,  expires_at |-> -1] }

\* apps table of db/schema.sql (second schema) after the registrations of
\* Registry: the key is stored hashed
AppsRows ==
    { [api_key_hash |-> Sha256(r.api_key), app_id |-> r.app_id,
       is_active |-> r.is_active, expires_at |-> r.expires_at] : r \in Registry }

\* The keys handed out by those registrations: current, or revoked since
IssuedAtStart ==
    [k \in { r.api_key : r \in Registry } |->
        LET r == CHOOSE x \in Registry : x.api_key = k IN
        [app_id |-> r.app_id, state |-> IF r.is_active THEN "current" ELSE "revoked",
         expires_at |-> r.expires_at]]

\* apps table of the stand-alone server: the key is stored in clear
LegacyAppsRows ==
    { [api_key |-> r.api_key, id |-> r.app_id, is_active |-> r.is_active] : r \in Registry }

\* validateApiKey: 0 stands for next(), otherwise the status sent
validateApiKey(apiKey, t) ==
    IF apiKey = NULL THEN 401
    ELSE LET rows == { r \in apps : r.api_key_hash = Sha256(apiKey) } IN
         IF rows = {} THEN 401
         ELSE LET app == CHOOSE r \in rows : TRUE IN
              IF ~app.is_active THEN 403
              ELSE IF app.expires_at < t THEN 403
              ELSE 0

\* req.appId set by validateApiKey
ReqAppId(apiKey) ==
    (CHOOSE r \in apps : r.api_key_hash = Sha256(apiKey)).app_id

\* verifyApiKey of the stand-alone server
verifyApiKey(apiKey) ==
    IF apiKey = NULL THEN 401
    ELSE LET rows == { r \in LegacyAppsRows : r.api_key = apiKey /\ r.is_active } IN
         IF rows = {} THEN 401 ELSE 0

LegacyReqAppId(apiKey) ==
    (CHOOSE r \in LegacyAppsRows : r.api_key = apiKey /\ r.is_active).id

----------------------------------------------------------------------------
(* Values *)

\* Date strings a caller can send, with the timestamp PostgreSQL casts them
\* to; any other text makes the statement fail (invalid input syntax).
DateValue == [d1 |-> TickSeconds, d2 |-> 2 * TickSeconds]
DateValid(s) == s \in DOMAIN DateValue

\* Text that casts to the INTEGER column app_id
IntText == {"1", "2", "3", "4"}

\* Collation order of the text values that MAX() compares
StrOrder == <<"chrome", "desktop", "firefox", "mobile", "tablet", "unknown">>
Rank(s) == CHOOSE i \in 1..Len(StrOrder) : StrOrder[i] = s
MaxStr(S) ==
    IF S \ {NULL} = {} THEN NULL
    ELSE CHOOSE s \in S \ {NULL} : \A t \in S \ {NULL} : Rank(t) <= Rank(s)

\* JSON.stringify / JSON.parse of a response: every value of these payloads
\* is a string, a number, null or a plain object, which the text form keeps.
JsonStringify(v) == <<"json", v>>
\* (variant: the hit path answers with the parsed payload wrapped in an object)
JsonParseWrapped(text) == [cached |-> text[2]]
JsonParse(text) == text[2]

\* jsonb_object_agg(key, cnt) over grouped rows: one entry per key; for a key
\* carried by several rows the last row read wins, and the order in which the
\* rows of a GROUP BY are read is not fixed by the statement.
ObjectAgg(rows) ==
    LET keys == { r.key : r \in rows }
        cnts == { r.cnt : r \in rows }
    IN  { f \in [keys -> cnts] :
            \A k \in keys : \E r \in rows : r.key = k /\ r.cnt = f[k] }

Coalesce(d) == IF d = NULL THEN "unknown" ELSE d

----------------------------------------------------------------------------
(* Redis *)

RedisGet(c, key, t) ==
    IF key \in DOMAIN c /\ c[key].exp > t THEN c[key].data ELSE NULL

RedisSetex(c, key, ttl, data, t, hist) ==
    [k \in DOMAIN c \cup {key} |->
        IF k = key THEN [data |-> data, exp |-> t + ttl, putAt |-> t, hist |-> hist]
        ELSE c[k]]

RedisDel(c, key) == [k \in DOMAIN c \ {key} |-> c[k]]

RedisExpire(c, t) == [k \in { x \in DOMAIN c : c[x].exp > t } |-> c[k]]

----------------------------------------------------------------------------
(* Cache keys *)

\* (variant: the key leaves out the application)
SummaryCacheKeyNoApp(appId, event, startDate, endDate) ==
    "analytics:event-summary:" \o event \o ":"
        \o (IF startDate # NULL THEN startDate ELSE "all") \o ":"
        \o (IF endDate # NULL THEN endDate ELSE "all")

\* GET /event-summary
SummaryCacheKey(appId, event, startDate, endDate) ==
    "analytics:event-summary:" \o appId \o ":" \o event \o ":"
        \o (IF startDate # NULL THEN startDate ELSE "all") \o ":"
        \o (IF endDate # NULL THEN endDate ELSE "all")

\* GET /user-stats
UserStatsCacheKey(appId, userId) ==
    "analytics:user-stats:" \o appId \o ":" \o userId

\* POST /collect: the keys it deletes
CollectCacheKeys(appId, event) ==
    << "analytics:event-summary:" \o appId \o ":" \o event,
       "analytics:user-stats:" \o appId >>

----------------------------------------------------------------------------
(* The SQL statements, evaluated on a snapshot tbl of analytics_events *)

\* WHERE app_id = $1 AND event_name = $2 [AND timestamp >= $3] [AND timestamp <= $n]
SummaryWhere(tbl, appId, event, startDate, endDate) ==
    { i \in 1..Len(tbl) :
        /\ tbl[i].app_id = appId
        /\ tbl[i].event_name = event
        /\ (startDate # NULL => tbl[i].timestamp >= DateValue[startDate])
        /\ (endDate # NULL => tbl[i].timestamp <= DateValue[endDate]) }

\* The statement fails: a parameter does not cast to its column type
SummaryFails(appId, startDate, endDate) ==
    \/ appId \notin IntText
    \/ startDate # NULL /\ ~DateValid(startDate)
    \/ endDate # NULL /\ ~DateValid(endDate)

\* Inner SELECT ... GROUP BY event_name, ip_address, device, then the outer
\* SELECT ... GROUP BY event_name: the rows the statement can return
SummaryRows(tbl, appId, event, startDate, endDate) ==
    LET M == SummaryWhere(tbl, appId, event, startDate, endDate)
        sub == { [ip_address |-> tbl[i].ip_address, device |-> tbl[i].device] : i \in M }
        device_count(g) ==
            Cardinality({ i \in M : tbl[i].ip_address = g.ip_address
                                      /\ tbl[i].device = g.device })
    IN  IF M = {} THEN {}
        ELSE { [event_name |-> event,
                count |-> Cardinality(sub),
                unique_users |-> Cardinality({ g.ip_address : g \in sub } \ {NULL}),
                device_data |-> dd] :
               dd \in ObjectAgg({ [key |-> Coalesce(g.device), cnt |-> device_count(g),
                                   ip |-> g.ip_address] : g \in sub }) }

\* response = rows.length > 0 ? rows[0] : zero-valued summary
SummaryResponses(tbl, appId, event, startDate, endDate) ==
    LET rows == SummaryRows(tbl, appId, event, startDate, endDate) IN
    IF rows # {} THEN rows
    ELSE { [event_name |-> event, count |-> 0, unique_users |-> 0, device_data |-> <<>>] }

\* WHERE app_id = $1 AND ip_address = $2
UserStatsWhere(tbl, appId, userId) ==
    { i \in 1..Len(tbl) : tbl[i].app_id = appId /\ tbl[i].ip_address = userId }

\* Inner GROUP BY ip_address, event_name, device, metadata; outer GROUP BY ip_address
UserStatsRows(tbl, appId, userId) ==
    LET M == UserStatsWhere(tbl, appId, userId)
        sub == { [event_name |-> tbl[i].event_name, device |-> tbl[i].device,
                  metadata |-> tbl[i].metadata] : i \in M }
        event_count(g) ==
            Cardinality({ i \in M : /\ tbl[i].event_name = g.event_name
                                      /\ tbl[i].device = g.device
                                      /\ tbl[i].metadata = g.metadata })
    IN  IF M = {} THEN {}
        ELSE { [user_id |-> userId,
                total_events |-> Cardinality(sub),
                event_breakdown |-> eb,
                device |-> MaxStr({ g.device : g \in sub }),
                browser |-> MaxStr({ g.metadata : g \in sub }),
                ip_address |-> userId] :
               eb \in ObjectAgg({ [key |-> g.event_name, cnt |-> event_count(g),
                                   device |-> g.device, metadata |-> g.metadata] : g \in sub }) }

UserStatsResponses(tbl, appId, userId) ==
    LET rows == UserStatsRows(tbl, appId, userId) IN
    IF rows # {} THEN rows
    ELSE { [user_id |-> userId, total_events |-> 0, event_breakdown |-> <<>>] }

\* GET /time-series: date_trunc($1, timestamp)
IntervalSeconds == [hour |-> 3600, day |-> 86400]
DateTrunc(interval, ts) == ts - (ts % IntervalSeconds[interval])

\* The statement text names $4 when startDate is given and $5 when endDate is
\* given, while the parameter list holds only the values that are present.
TimeSeriesFails(startDate, endDate, intervalType) ==
    \/ intervalType \notin DOMAIN IntervalSeconds
    \/ startDate # NULL /\ ~DateValid(startDate)
    \/ endDate # NULL /\ ~DateValid(endDate)
    \/ endDate # NULL /\ startDate = NULL

RECURSIVE SortDesc(_)
SortDesc(S) ==
    IF S = {} THEN <<>>
    ELSE LET m == CHOOSE x \in S : \A y \in S : y <= x
         IN  <<m>> \o SortDesc(S \ {m})

\* (variant: the cap keeps the rows at the end of the ordering)
LastN(q, n) == SubSeq(q, IF Len(q) < n THEN 1 ELSE Len(q) - n + 1, Len(q))

FirstN(q, n) == SubSeq(q, 1, IF Len(q) < n THEN Len(q) ELSE n)

TimeSeriesRows(tbl, appId, event, startDate, endDate, intervalType) ==
    LET M == SummaryWhere(tbl, appId, event, startDate, endDate)
        bucket(i) == DateTrunc(intervalType, tbl[i].timestamp)
        ordered == FirstN(SortDesc({ bucket(i) : i \in M }), TimeSeriesLimit)
    IN  [n \in 1..Len(ordered) |->
            [time_bucket |-> ordered[n],
             count |-> Cardinality({ i \in M : bucket(i) = ordered[n] }),
             unique_users |->
                Cardinality({ tbl[i].ip_address : i \in { j \in M : bucket(j) = ordered[n] } }
                            \ {NULL})]]

\* Stand-alone server, GET /api/analytics/by-device:
\* SELECT device, COUNT(*) FROM events WHERE app_id = $1 AND device IS NOT NULL
\* GROUP BY device ORDER BY count DESC.  Rows of equal count come in either order.
ByDeviceFails(start_date, end_date) ==
    \/ start_date # NULL /\ ~DateValid(start_date)
    \/ end_date # NULL /\ ~DateValid(end_date)

ByDeviceRows(tbl, appId, start_date, end_date) ==
    LET M == { i \in 1..Len(tbl) :
                /\ tbl[i].app_id = appId /\ tbl[i].device # NULL
                /\ (start_date # NULL => tbl[i].created_at >= DateValue[start_date])
                /\ (end_date # NULL => tbl[i].created_at <= DateValue[end_date]) }
        devs == { tbl[i].device : i \in M }
        cnt(d) == Cardinality({ i \in M : tbl[i].device = d })
    IN  { q \in [1..Cardinality(devs) -> [device : devs, count : 1..Len(tbl)]] :
            /\ \A n \in DOMAIN q : q[n].count = cnt(q[n].device)
            /\ \A n, m \in DOMAIN q : n < m =>
                    q[n].device # q[m].device /\ q[n].count >= q[m].count }

----------------------------------------------------------------------------
(* State *)

Idle == [pc |-> "idle"]

\* A response, with the history the properties read: asof is the number of
\* rows the table held when the payload was computed, by the request that
\* computed it, age the seconds since a served cache entry was stored, needs
\* the newest matching row whose collect had reported success when the
\* request came in, needsOld the newest such row acknowledged more than the
\* TTL earlier, nrows the size of the table when the response was sent,
\* redisErr whether a Redis call of the request failed, getErr whether its
\* redis.get did; repeat tells that the
\* response before this one answered the same query with no row inserted and
\* no Redis failure since, and same that the two payloads are equal.
NoResp ==
    [op |-> "none", status |-> 0, auth |-> NULL, app |-> NULL, p |-> <<>>,
     hit |-> FALSE, body |-> <<>>, asof |-> 0, age |-> 0, by |-> <<>>,
     needs |-> 0, needsOld |-> 0, eventId |-> 0, delFailed |-> FALSE,
     touched |-> FALSE, nrows |-> 0, redisErr |-> FALSE, getErr |-> FALSE,
     repeat |-> FALSE, same |-> FALSE]

Repeats(prev, resp) ==
    /\ prev.op = resp.op /\ prev.status = 200 /\ resp.status = 200
    /\ prev.app = resp.app /\ prev.p = resp.p
    /\ prev.nrows = resp.nrows
    /\ ~prev.redisErr /\ ~resp.redisErr

Send(resp) ==
    [resp EXCEPT !.repeat = Repeats(last, resp),
                 !.same = IF Repeats(last, resp) THEN last.body = resp.body ELSE FALSE]

Newest(S) == IF S = {} THEN 0 ELSE CHOOSE i \in S : \A j \in S : j <= i

Needs(M) == Newest({ i \in M : ackedAt[i] >= 0 })
NeedsOld(M, ttl) == Newest({ i \in M : ackedAt[i] >= 0 /\ now - ackedAt[i] > ttl })

Init ==
    /\ events = <<>>
    /\ legacyEvents = <<>>
    /\ cache = <<>>
    /\ now = 0
    /\ slots = [s \in Slots |-> Idle]
    /\ ackedAt = <<>>
    /\ last = NoResp
    /\ apps = AppsRows
    /\ issued = IssuedAtStart

Room == Len(events) + Len(legacyEvents) < MaxEvents

\* Time passes; Redis drops the entries whose TTL has run out
Tick ==
    /\ now + TickSeconds <= MaxTicks * TickSeconds
    /\ now' = now + TickSeconds
    /\ cache' = RedisExpire(cache, now')
    /\ UNCHANGED <<events, legacyEvents, slots, ackedAt, last, apps, issued>>

\* validateApiKey answers 401 or 403 and the route handler never runs
Rejected(apiKey) ==
    /\ validateApiKey(apiKey, now) # 0
    /\ last' = Send([NoResp EXCEPT !.op = "rejected", !.status = validateApiKey(apiKey, now),
                              !.p = <<apiKey>>, !.nrows = Len(events)])
    /\ UNCHANGED <<events, legacyEvents, cache, now, slots, ackedAt, apps, issued>>

----------------------------------------------------------------------------
(* POST /collect *)

\* (variant: the fields are validated after the INSERT)
CollectInvalidAfterInsert(apiKey, event, url) ==
    /\ validateApiKey(apiKey, now) = 0
    /\ event = NULL \/ url = NULL
    /\ Room
    /\ events' = Append(events,
                    [app_id |-> ReqAppId(apiKey), event_name |-> event,
                     ip_address |-> NULL, device |-> NULL,
                     timestamp |-> now, metadata |-> NULL])
    /\ ackedAt' = Append(ackedAt, -1)
    /\ last' = Send([NoResp EXCEPT !.op = "collect", !.status = 400,
                              !.auth = ReqAppId(apiKey), !.p = <<event, url>>,
                              !.nrows = Len(events)])
    /\ UNCHANGED <<legacyEvents, cache, now, slots, apps, issued>>

CollectInvalid(apiKey, event, url) ==
    /\ validateApiKey(apiKey, now) = 0
    /\ event = NULL \/ url = NULL
    /\ last' = Send([NoResp EXCEPT !.op = "collect", !.status = 400,
                              !.auth = ReqAppId(apiKey), !.p = <<event, url>>,
                              !.nrows = Len(events)])
    /\ UNCHANGED <<events, legacyEvents, cache, now, slots, ackedAt, apps, issued>>

\* The INSERT is executed; the handler is suspended at the await
CollectInsert(s, apiKey, event, url, ipAddress, device, metadata) ==
    /\ slots[s] = Idle
    /\ validateApiKey(apiKey, now) = 0
    /\ event # NULL /\ url # NULL
    /\ Room
    /\ events' = Append(events,
                    [app_id |-> ReqAppId(apiKey), event_name |-> event,
                     ip_address |-> ipAddress, device |-> device,
                     timestamp |-> now, metadata |-> metadata])
    /\ ackedAt' = Append(ackedAt, -1)
    /\ slots' = [slots EXCEPT ![s] =
                    [pc |-> "inserted", op |-> "collect", appId |-> ReqAppId(apiKey),
                     event |-> event, eventId |-> Len(events) + 1]]
    /\ UNCHANGED <<legacyEvents, cache, now, last, apps, issued>>

\* (variant: the cache keys are deleted before the INSERT is awaited)
CollectInsertFailsAfterDel(apiKey, event, url) ==
    /\ validateApiKey(apiKey, now) = 0
    /\ event # NULL /\ url # NULL
    /\ cache' = RedisDel(RedisDel(cache, CollectCacheKeys(ReqAppId(apiKey), event)[1]),
                         CollectCacheKeys(ReqAppId(apiKey), event)[2])
    /\ last' = Send([NoResp EXCEPT !.op = "collect", !.status = 500,
                              !.auth = ReqAppId(apiKey), !.p = <<event>>,
                              !.touched = TRUE, !.nrows = Len(events)])
    /\ UNCHANGED <<events, legacyEvents, now, slots, ackedAt, apps, issued>>

\* The INSERT fails: catch (err) -> next(err) -> the error middleware
CollectInsertFails(apiKey, event, url) ==
    /\ validateApiKey(apiKey, now) = 0
    /\ event # NULL /\ url # NULL
    /\ last' = Send([NoResp EXCEPT !.op = "collect", !.status = 500,
                              !.auth = ReqAppId(apiKey), !.p = <<event>>,
                              !.touched = TRUE, !.nrows = Len(events)])
    /\ UNCHANGED <<events, legacyEvents, cache, now, slots, ackedAt, apps, issued>>

\* (variant: the deletes are awaited inside the try block)
CollectStatusAwaited(delOk) == IF delOk THEN 201 ELSE 500

\* Status of the response after the two redis.del calls were issued: the
\* calls carry no callback and are not awaited
CollectStatus(delOk) == 201

\* After the await: redis.del for each key, then 201 with the event id
CollectFinish(s, delOk1, delOk2) ==
    /\ slots[s].pc = "inserted"
    /\ LET r == slots[s]
           keys == CollectCacheKeys(r.appId, r.event)
           c1 == IF delOk1 THEN RedisDel(cache, keys[1]) ELSE cache
           c2 == IF delOk2 THEN RedisDel(c1, keys[2]) ELSE c1
       IN  /\ cache' = c2
           /\ ackedAt' = [ackedAt EXCEPT ![r.eventId] = now]
           /\ last' = Send([NoResp EXCEPT !.op = "collect",
                                     !.status = CollectStatus(delOk1 /\ delOk2),
                                     !.auth = r.appId, !.app = r.appId,
                                     !.p = <<r.event>>, !.eventId = r.eventId,
                                     !.delFailed = ~(delOk1 /\ delOk2),
                                     !.touched = TRUE, !.nrows = Len(events)])
    /\ slots' = [slots EXCEPT ![s] = Idle]
    /\ UNCHANGED <<events, legacyEvents, now, apps, issued>>

----------------------------------------------------------------------------
(* GET /event-summary *)

SummaryInvalid(apiKey) ==
    /\ validateApiKey(apiKey, now) = 0
    /\ last' = Send([NoResp EXCEPT !.op = "summary", !.status = 400,
                              !.auth = ReqAppId(apiKey), !.nrows = Len(events)])
    /\ UNCHANGED <<events, legacyEvents, cache, now, slots, ackedAt, apps, issued>>

\* const appId = app_id || req.appId
SummaryAppId(apiKey, app_id) == IF app_id # NULL THEN app_id ELSE ReqAppId(apiKey)

\* A cache hit: res.json(JSON.parse(cachedData))
HitResponse(op, auth, appId, p, cacheKey, cachedData, needs, needsOld) ==
    [NoResp EXCEPT !.op = op, !.status = 200, !.auth = auth, !.app = appId,
                   !.p = p, !.hit = TRUE, !.body = JsonParse(cachedData),
                   !.asof = cache[cacheKey].hist.asof, !.by = cache[cacheKey].hist.by,
                   !.age = now - cache[cacheKey].putAt,
                   !.needs = needs, !.needsOld = needsOld,
                   !.touched = TRUE, !.nrows = Len(events)]

\* The handler up to the redis.get callback: a hit is answered from the
\* cache; on a miss (or a Redis error, cachedData undefined) the SELECT is sent
SummaryGet(s, apiKey, event, startDate, endDate, app_id, redisOk) ==
    /\ slots[s] = Idle
    /\ validateApiKey(apiKey, now) = 0
    /\ event # NULL
    /\ LET appId == SummaryAppId(apiKey, app_id)
           cacheKey == SummaryCacheKey(appId, event, startDate, endDate)
           cachedData == IF redisOk THEN RedisGet(cache, cacheKey, now) ELSE NULL
           p == <<event, startDate, endDate>>
           M == IF SummaryFails(appId, startDate, endDate) THEN {}
                ELSE SummaryWhere(events, appId, event, startDate, endDate)
       IN  IF cachedData # NULL
           THEN /\ last' = Send(HitResponse("summary", ReqAppId(apiKey), appId, p, cacheKey,
                                            cachedData, Needs(M),
                                            NeedsOld(M, SummaryTtl)))
                /\ UNCHANGED slots
           ELSE /\ slots' = [slots EXCEPT ![s] =
                                [pc |-> "query", op |-> "summary",
                                 auth |-> ReqAppId(apiKey), appId |-> appId, p |-> p,
                                 cacheKey |-> cacheKey, needs |-> Needs(M),
                                 needsOld |-> NeedsOld(M, SummaryTtl),
                                 redisErr |-> ~redisOk]]
                /\ UNCHANGED last
    /\ UNCHANGED <<events, legacyEvents, cache, now, ackedAt, apps, issued>>

\* redis.get is sent and Redis never replies: the callback is never called,
\* and the handler has returned without a response
SummaryGetHangs(s, apiKey, event, startDate, endDate, app_id) ==
    /\ slots[s] = Idle
    /\ validateApiKey(apiKey, now) = 0
    /\ event # NULL
    /\ slots' = [slots EXCEPT ![s] =
                    [pc |-> "get", op |-> "summary",
                     cacheKey |-> SummaryCacheKey(SummaryAppId(apiKey, app_id), event,
                                                  startDate, endDate)]]
    /\ UNCHANGED <<events, legacyEvents, cache, now, ackedAt, last, apps, issued>>

\* The await resolves with the rows of the SELECT
Computed(r, response) ==
    [pc |-> "computed", op |-> r.op, auth |-> r.auth, appId |-> r.appId, p |-> r.p,
     cacheKey |-> r.cacheKey, needs |-> r.needs, needsOld |-> r.needsOld,
     redisErr |-> r.redisErr, response |-> response, asof |-> Len(events)]

\* PostgreSQL executes the SELECT on the table as it is now
SummaryQuery(s) ==
    /\ slots[s].pc = "query" /\ slots[s].op = "summary"
    /\ LET r == slots[s] IN
       /\ ~SummaryFails(r.appId, r.p[2], r.p[3])
       /\ \E response \in SummaryResponses(events, r.appId, r.p[1], r.p[2], r.p[3]) :
             slots' = [slots EXCEPT ![s] = Computed(r, response)]
    /\ UNCHANGED <<events, legacyEvents, cache, now, ackedAt, last, apps, issued>>

\* (variant: the zero-valued result is cached before the error is passed on)
QueryFailsCachesZero(s) ==
    /\ slots[s].pc = "query"
    /\ cache' = RedisSetex(cache, slots[s].cacheKey, SummaryTtl,
                           JsonStringify([event_name |-> slots[s].p[1], count |-> 0,
                                          unique_users |-> 0, device_data |-> <<>>]),
                           now, [asof |-> Len(events),
                                 by |-> <<slots[s].op, slots[s].appId, slots[s].p>>])
    /\ last' = Send([NoResp EXCEPT !.op = slots[s].op, !.status = 500,
                              !.auth = slots[s].auth, !.app = slots[s].appId,
                              !.p = slots[s].p, !.touched = TRUE,
                              !.nrows = Len(events),
                              !.redisErr = slots[s].redisErr,
                              !.getErr = slots[s].redisErr])
    /\ slots' = [slots EXCEPT ![s] = Idle]
    /\ UNCHANGED <<events, legacyEvents, now, ackedAt, apps, issued>>

\* The SELECT fails (a parameter does not cast, or the database is down):
\* catch (err) -> next(err)
QueryFails(s) ==
    /\ slots[s].pc = "query"
    /\ last' = Send([NoResp EXCEPT !.op = slots[s].op, !.status = 500,
                              !.auth = slots[s].auth, !.app = slots[s].appId,
                              !.p = slots[s].p, !.touched = TRUE,
                              !.nrows = Len(events),
                              !.redisErr = slots[s].redisErr,
                              !.getErr = slots[s].redisErr])
    /\ slots' = [slots EXCEPT ![s] = Idle]
    /\ UNCHANGED <<events, legacyEvents, cache, now, ackedAt, apps, issued>>

\* (variant: an error of redis.get is passed on to the error middleware)
MissResponseGetError(r, redisOk) ==
    [NoResp EXCEPT !.op = r.op, !.status = IF r.redisErr THEN 500 ELSE 200,
                   !.auth = r.auth, !.app = r.appId,
                   !.p = r.p, !.body = r.response, !.asof = r.asof,
                   !.by = <<r.op, r.appId, r.p>>, !.needs = r.needs,
                   !.needsOld = r.needsOld, !.touched = TRUE, !.nrows = Len(events),
                   !.redisErr = r.redisErr \/ ~redisOk, !.getErr = r.redisErr]

\* A computed response: res.json(response)
MissResponse(r, redisOk) ==
    [NoResp EXCEPT !.op = r.op, !.status = 200, !.auth = r.auth, !.app = r.appId,
                   !.p = r.p, !.body = r.response, !.asof = r.asof,
                   !.by = <<r.op, r.appId, r.p>>, !.needs = r.needs,
                   !.needsOld = r.needsOld, !.touched = TRUE, !.nrows = Len(events),
                   !.redisErr = r.redisErr \/ ~redisOk, !.getErr = r.redisErr]

\* (variant: the summary is cached with the TTL of the visitor stats)
SummaryPutTenMinutes(c, r, t) ==
    RedisSetex(c, r.cacheKey, UserStatsTtl, JsonStringify(r.response), t,
               [asof |-> r.asof, by |-> <<r.op, r.appId, r.p>>])

\* (variant: over an entry that exists, only the count is written)
SummaryPutCountOnly(c, r, t) ==
    RedisSetex(c, r.cacheKey, SummaryTtl,
               IF r.cacheKey \in DOMAIN c
               THEN JsonStringify([JsonParse(c[r.cacheKey].data) EXCEPT
                                      !.count = r.response.count])
               ELSE JsonStringify(r.response), t,
               [asof |-> r.asof, by |-> <<r.op, r.appId, r.p>>])

\* redis.setex(cacheKey, 300, JSON.stringify(response))
SummaryPut(c, r, t) ==
    RedisSetex(c, r.cacheKey, SummaryTtl, JsonStringify(r.response), t,
               [asof |-> r.asof, by |-> <<r.op, r.appId, r.p>>])

\* After the await: cache the response and send it
SummaryFinish(s, redisOk) ==
    /\ slots[s].pc = "computed" /\ slots[s].op = "summary"
    /\ cache' = IF redisOk THEN SummaryPut(cache, slots[s], now) ELSE cache
    /\ last' = Send(MissResponse(slots[s], redisOk))
    /\ slots' = [slots EXCEPT ![s] = Idle]
    /\ UNCHANGED <<events, legacyEvents, now, ackedAt, apps, issued>>

----------------------------------------------------------------------------
(* GET /user-stats *)

UserStatsInvalid(apiKey) ==
    /\ validateApiKey(apiKey, now) = 0
    /\ last' = Send([NoResp EXCEPT !.op = "user-stats", !.status = 400,
                              !.auth = ReqAppId(apiKey), !.nrows = Len(events)])
    /\ UNCHANGED <<events, legacyEvents, cache, now, slots, ackedAt, apps, issued>>

UserStatsGet(s, apiKey, userId, redisOk) ==
    /\ slots[s] = Idle
    /\ validateApiKey(apiKey, now) = 0
    /\ userId # NULL
    /\ LET appId == ReqAppId(apiKey)
           cacheKey == UserStatsCacheKey(appId, userId)
           cachedData == IF redisOk THEN RedisGet(cache, cacheKey, now) ELSE NULL
           p == <<userId>>
           M == UserStatsWhere(events, appId, userId)
       IN  IF cachedData # NULL
           THEN /\ last' = Send(HitResponse("user-stats", appId, appId, p, cacheKey,
                                            cachedData, Needs(M),
                                            NeedsOld(M, UserStatsTtl)))
                /\ UNCHANGED slots
           ELSE /\ slots' = [slots EXCEPT ![s] =
                                [pc |-> "query", op |-> "user-stats",
                                 auth |-> appId, appId |-> appId, p |-> p,
                                 cacheKey |-> cacheKey, needs |-> Needs(M),
                                 needsOld |-> NeedsOld(M, UserStatsTtl),
                                 redisErr |-> ~redisOk]]
                /\ UNCHANGED last
    /\ UNCHANGED <<events, legacyEvents, cache, now, ackedAt, apps, issued>>

\* redis.get is sent and Redis never replies
UserStatsGetHangs(s, apiKey, userId) ==
    /\ slots[s] = Idle
    /\ validateApiKey(apiKey, now) = 0
    /\ userId # NULL
    /\ slots' = [slots EXCEPT ![s] =
                    [pc |-> "get", op |-> "user-stats",
                     cacheKey |-> UserStatsCacheKey(ReqAppId(apiKey), userId)]]
    /\ UNCHANGED <<events, legacyEvents, cache, now, ackedAt, last, apps, issued>>

UserStatsQuery(s) ==
    /\ slots[s].pc = "query" /\ slots[s].op = "user-stats"
    /\ \E response \in UserStatsResponses(events, slots[s].appId, slots[s].p[1]) :
          slots' = [slots EXCEPT ![s] = Computed(slots[s], response)]
    /\ UNCHANGED <<events, legacyEvents, cache, now, ackedAt, last, apps, issued>>

\* (variant: only a result with events is cached)
UserStatsPutNonEmpty(c, r, t) ==
    IF r.response.total_events = 0 THEN c
    ELSE RedisSetex(c, r.cacheKey, UserStatsTtl, JsonStringify(r.response), t,
                    [asof |-> r.asof, by |-> <<r.op, r.appId, r.p>>])

\* redis.setex(cacheKey, 600, JSON.stringify(response))
UserStatsPut(c, r, t) ==
    RedisSetex(c, r.cacheKey, UserStatsTtl, JsonStringify(r.response), t,
               [asof |-> r.asof, by |-> <<r.op, r.appId, r.p>>])

UserStatsFinish(s, redisOk) ==
    /\ slots[s].pc = "computed" /\ slots[s].op = "user-stats"
    /\ cache' = IF redisOk THEN UserStatsPut(cache, slots[s], now) ELSE cache
    /\ last' = Send(MissResponse(slots[s], redisOk))
    /\ slots' = [slots EXCEPT ![s] = Idle]
    /\ UNCHANGED <<events, legacyEvents, now, ackedAt, apps, issued>>

----------------------------------------------------------------------------
(* GET /time-series: not cached, one SELECT *)

TimeSeriesInvalid(apiKey) ==
    /\ validateApiKey(apiKey, now) = 0
    /\ last' = Send([NoResp EXCEPT !.op = "time-series", !.status = 400,
                              !.auth = ReqAppId(apiKey), !.nrows = Len(events)])
    /\ UNCHANGED <<events, legacyEvents, cache, now, slots, ackedAt, apps, issued>>

TimeSeries(apiKey, event, startDate, endDate, interval) ==
    /\ validateApiKey(apiKey, now) = 0
    /\ event # NULL
    /\ LET appId == ReqAppId(apiKey)
           intervalType == IF interval # NULL THEN interval ELSE "day"
           fails == TimeSeriesFails(startDate, endDate, intervalType)
       IN  last' = Send([NoResp EXCEPT
                      !.op = "time-series",
                      !.status = IF fails THEN 500 ELSE 200,
                      !.auth = appId, !.app = appId,
                      !.p = <<event, startDate, endDate, intervalType>>,
                      !.body = IF fails THEN <<>>
                               ELSE TimeSeriesRows(events, appId, event, startDate,
                                                   endDate, intervalType),
                      !.asof = Len(events), !.touched = TRUE, !.nrows = Len(events)])
    /\ UNCHANGED <<events, legacyEvents, cache, now, slots, ackedAt, apps, issued>>

----------------------------------------------------------------------------
(* The stand-alone server: its own tables, no cache *)

LegacyRejected(apiKey) ==
    /\ verifyApiKey(apiKey) # 0
    /\ last' = Send([NoResp EXCEPT !.op = "legacy-rejected", !.status = verifyApiKey(apiKey),
                              !.p = <<apiKey>>, !.nrows = Len(legacyEvents)])
    /\ UNCHANGED <<events, legacyEvents, cache, now, slots, ackedAt, apps, issued>>

LegacyCollectInvalid(apiKey, event, url) ==
    /\ verifyApiKey(apiKey) = 0
    /\ event = NULL \/ url = NULL
    /\ last' = Send([NoResp EXCEPT !.op = "legacy-collect", !.status = 400,
                              !.auth = LegacyReqAppId(apiKey),
                              !.p = <<event, url>>, !.nrows = Len(legacyEvents)])
    /\ UNCHANGED <<events, legacyEvents, cache, now, slots, ackedAt, apps, issued>>

LegacyCollect(apiKey, event, url, device) ==
    /\ verifyApiKey(apiKey) = 0
    /\ event # NULL /\ url # NULL
    /\ Room
    /\ legacyEvents' = Append(legacyEvents,
                          [app_id |-> LegacyReqAppId(apiKey), event |-> event,
                           url |-> url, device |-> device, created_at |-> now])
    /\ last' = Send([NoResp EXCEPT !.op = "legacy-collect", !.status = 201,
                              !.auth = LegacyReqAppId(apiKey),
                              !.app = LegacyReqAppId(apiKey),
                              !.p = <<event, url>>, !.touched = TRUE,
                              !.nrows = Len(legacyEvents')])
    /\ UNCHANGED <<events, cache, now, slots, ackedAt, apps, issued>>

LegacyByDevice(apiKey, start_date, end_date) ==
    /\ verifyApiKey(apiKey) = 0
    /\ LET appId == LegacyReqAppId(apiKey) IN
       IF ByDeviceFails(start_date, end_date)
       THEN last' = Send([NoResp EXCEPT !.op = "by-device", !.status = 500,
                                  !.auth = appId, !.app = appId,
                                  !.p = <<start_date, end_date>>,
                                  !.touched = TRUE, !.nrows = Len(legacyEvents)])
       ELSE \E devices \in ByDeviceRows(legacyEvents, appId, start_date, end_date) :
              last' = Send([NoResp EXCEPT !.op = "by-device", !.status = 200,
                                    !.auth = appId, !.app = appId,
                                    !.p = <<start_date, end_date>>,
                                    !.body = devices, !.asof = Len(legacyEvents),
                                    !.touched = TRUE, !.nrows = Len(legacyEvents)])
    /\ UNCHANGED <<events, legacyEvents, cache, now, slots, ackedAt, apps, issued>>

----------------------------------------------------------------------------
(* Requests the specifications send *)

BadKeys == {NULL, "kRevoked", "kExpired", "kUnknown"}
EventNames == {NULL, "pv"}
Urls == {NULL, "/"}
EndDates == {NULL}

Collects(ws, keys, ips, devices) ==
    \/ \E k \in keys, e \in EventNames, u \in Urls : CollectInvalid(k, e, u)
    \/ \E s \in ws, k \in keys, e \in EventNames, u \in Urls,
          ip \in ips, d \in devices :
            CollectInsert(s, k, e, u, ip, d, NULL)
    \/ \E k \in keys, e \in EventNames, u \in Urls : CollectInsertFails(k, e, u)
    \/ \E s \in ws, ok1, ok2 \in BOOLEAN : CollectFinish(s, ok1, ok2)

Summaries(keys, starts) ==
    \/ \E k \in keys : SummaryInvalid(k)
    \/ \E s \in Readers, k \in keys, e \in EventNames, sd \in starts,
          ed \in EndDates, ok \in BOOLEAN :
            SummaryGet(s, k, e, sd, ed, NULL, ok)
    \/ \E s \in Readers : SummaryQuery(s)
    \/ \E s \in Readers : QueryFails(s)
    \/ \E s \in Readers, ok \in BOOLEAN : SummaryFinish(s, ok)

UserStats(keys, ips) ==
    \/ \E k \in keys : UserStatsInvalid(k)
    \/ \E s \in Readers, k \in keys, u \in ips, ok \in BOOLEAN : UserStatsGet(s, k, u, ok)
    \/ \E s \in Readers : UserStatsQuery(s)
    \/ \E s \in Readers, ok \in BOOLEAN : UserStatsFinish(s, ok)

\* The tables of at most n rows over the given values, all acknowledged
Tables(appIds, ips, devices, n) ==
    UNION { [1..m -> [app_id : appIds, event_name : {"pv"}, ip_address : ips,
                      device : devices, timestamp : {0}, metadata : {NULL}]] :
            m \in 0..n }

----------------------------------------------------------------------------
(* Spec: one tenant, its collects and event summaries, under passing time *)

Next ==
    \/ Tick
    \/ \E s \in Writers : CollectInsert(s, "kA", "pv", "/", "u1", "mobile", NULL)
    \/ \E s \in Writers, ok1, ok2 \in BOOLEAN : CollectFinish(s, ok1, ok2)
    \/ Summaries({"kA"}, {NULL, "d1"})

Spec == Init /\ [][Next]_vars

----------------------------------------------------------------------------
(* SpecTtl: both cached queries on a table that does not change, under     *)
(* passing time                                                            *)

InitTtl ==
    /\ events \in Tables({"1"}, {"u1"}, {"mobile"}, MaxEvents)
    /\ ackedAt = [i \in 1..Len(events) |-> 0]
    /\ legacyEvents = <<>>
    /\ cache = <<>>
    /\ now = 0
    /\ slots = [s \in Slots |-> Idle]
    /\ last = NoResp
    /\ apps = AppsRows
    /\ issued = IssuedAtStart

NextTtl ==
    \/ Tick
    \/ Summaries({"kA"}, {NULL, "all"})
    \/ UserStats({"kA"}, {"u1"})

SpecTtl == InitTtl /\ [][NextTtl]_vars

----------------------------------------------------------------------------
(* SpecTenants: two tenants, both servers, every aggregate, one request    *)
(* after the other; no time passes                                         *)

NextTenants ==
    \/ \E s \in Readers, k \in {"kA", "kB"} :
            CollectInsert(s, k, "pv", "/", "u1", "mobile", NULL)
    \/ \E s \in Readers : CollectFinish(s, TRUE, TRUE)
    \/ \E s \in Readers, k \in {"kA", "kB"}, a \in {NULL, "2"}, ok \in BOOLEAN :
            SummaryGet(s, k, "pv", NULL, NULL, a, ok)
    \/ \E s \in Readers : SummaryQuery(s)
    \/ \E s \in Readers : SummaryFinish(s, TRUE)
    \/ \E s \in Readers, k \in {"kA", "kB"}, ok \in BOOLEAN : UserStatsGet(s, k, "u1", ok)
    \/ \E s \in Readers : UserStatsQuery(s)
    \/ \E s \in Readers : UserStatsFinish(s, TRUE)
    \/ \E k \in {"kA", "kB"} : TimeSeries(k, "pv", NULL, NULL, NULL)
    \/ \E k \in {"kA", "kB"} : LegacyCollect(k, "pv", "/", "mobile")
    \/ \E k \in {"kA", "kB"} : LegacyByDevice(k, NULL, NULL)

SpecTenants == Init /\ [][NextTenants]_vars

----------------------------------------------------------------------------
(* SpecLegacy: the stand-alone server, and the API-key middleware of the   *)
(* analytics routes                                                        *)

NextLegacy ==
    \/ Tick
    \/ \E k \in BadKeys : Rejected(k)
    \/ \E k \in BadKeys : LegacyRejected(k)
    \/ \E k \in {"kA", "kB"}, e \in EventNames, u \in Urls : LegacyCollectInvalid(k, e, u)
    \/ \E k \in {"kA", "kB"}, d \in {NULL, "mobile"} : LegacyCollect(k, "pv", "/", d)
    \/ \E k \in {"kA", "kB"}, sd \in {NULL, "d1"}, ed \in {NULL, "d2"} :
            LegacyByDevice(k, sd, ed)

SpecLegacy == Init /\ [][NextLegacy]_vars

----------------------------------------------------------------------------
(* SpecAgg: event summaries and visitor stats computed on every small table *)

InitAgg ==
    /\ events \in Tables({"1", "2"}, {NULL, "u1", "u2"}, {NULL, "mobile"}, MaxRows)
    /\ ackedAt = [i \in 1..Len(events) |-> 0]
    /\ legacyEvents = <<>>
    /\ cache = <<>>
    /\ now = 0
    /\ slots = [s \in Slots |-> Idle]
    /\ last = NoResp
    /\ apps = AppsRows
    /\ issued = IssuedAtStart

NextAgg ==
    \/ \E s \in Readers, ok \in BOOLEAN : SummaryGet(s, "kA", "pv", NULL, NULL, NULL, ok)
    \/ \E s \in Readers : SummaryQuery(s)
    \/ \E s \in Readers, ok \in BOOLEAN : SummaryFinish(s, ok)
    \/ \E s \in Readers, ok \in BOOLEAN : UserStatsGet(s, "kA", "u1", ok)
    \/ \E s \in Readers : UserStatsQuery(s)
    \/ \E s \in Readers, ok \in BOOLEAN : UserStatsFinish(s, ok)

SpecAgg == InitAgg /\ [][NextAgg]_vars

----------------------------------------------------------------------------
(* SpecCollect: collects of one tenant, valid and invalid, accepted and    *)
(* failing, among the cached results of two tenants                        *)

\* An event name a caller can send: it holds the separator of the cache keys
ColonName == "pv:all:all"

NextCollect ==
    \/ Collects(Writers, {"kA"}, {"u1"}, {"mobile"})
    \/ \E s \in Writers : CollectInsert(s, "kA", ColonName, "/", "u1", "mobile", NULL)
    \/ CollectInsertFails("kA", ColonName, "/")
    \/ \E s \in Readers, k \in {"kA", "kB"} : SummaryGet(s, k, "pv", NULL, NULL, NULL, TRUE)
    \/ \E s \in Readers : SummaryQuery(s)
    \/ \E s \in Readers : SummaryFinish(s, TRUE)
    \/ \E s \in Readers : UserStatsGet(s, "kB", "u1", TRUE)
    \/ \E s \in Readers : UserStatsQuery(s)
    \/ \E s \in Readers : UserStatsFinish(s, TRUE)
    \/ \E e \in EventNames, u \in Urls : LegacyCollectInvalid("kA", e, u)
    \/ LegacyCollect("kA", "pv", "/", "mobile")

SpecCollect == Init /\ [][NextCollect]_vars

----------------------------------------------------------------------------
(* SpecSeries: time series over tables of one event per hour *)

\* n rows of application 1, one per hour, of two visitors in turn
Hourly(n) ==
    [i \in 1..n |->
        [app_id |-> "1", event_name |-> "pv",
         ip_address |-> IF i % 2 = 0 THEN "u1" ELSE "u2", device |-> "mobile",
         timestamp |-> (i - 1) * IntervalSeconds["hour"], metadata |-> NULL]]

InitSeries ==
    /\ \E n \in { m \in 0..MaxSeries : m % 5 = 0 \/ m >= TimeSeriesLimit - 2 } :
          events = Hourly(n)
    /\ ackedAt = [i \in 1..Len(events) |-> 0]
    /\ legacyEvents = <<>>
    /\ cache = <<>>
    /\ now = 0
    /\ slots = [s \in Slots |-> Idle]
    /\ last = NoResp
    /\ apps = AppsRows
    /\ issued = IssuedAtStart

NextSeries ==
    \/ TimeSeriesInvalid("kA")
    \/ \E sd \in {NULL, "d1"}, ed \in {NULL, "d2"}, iv \in {NULL, "hour"} :
          TimeSeries("kA", "pv", sd, ed, iv)

SpecSeries == InitSeries /\ [][NextSeries]_vars

----------------------------------------------------------------------------
(* SpecRace: two queries of one tenant in flight at a time, beside a       *)
(* collect                                                                 *)

RaceReaders == Readers \cup {"r"}

InitRace ==
    /\ events = <<>>
    /\ legacyEvents = <<>>
    /\ cache = <<>>
    /\ now = 0
    /\ slots = [s \in Writers \cup RaceReaders |-> Idle]
    /\ ackedAt = <<>>
    /\ last = NoResp
    /\ apps = AppsRows
    /\ issued = IssuedAtStart

NextRace ==
    \/ \E s \in Writers : CollectInsert(s, "kA", "pv", "/", "u1", "mobile", NULL)
    \/ \E s \in Writers : CollectFinish(s, TRUE, TRUE)
    \/ \E s \in RaceReaders : SummaryGet(s, "kA", "pv", NULL, NULL, NULL, TRUE)
    \/ \E s \in RaceReaders : SummaryQuery(s)
    \/ \E s \in RaceReaders : SummaryFinish(s, TRUE)
    \/ \E s \in RaceReaders : UserStatsGet(s, "kA", "u1", TRUE)
    \/ \E s \in RaceReaders : UserStatsQuery(s)
    \/ \E s \in RaceReaders : UserStatsFinish(s, TRUE)

SpecRace == InitRace /\ [][NextRace]_vars

----------------------------------------------------------------------------
(* routes/auth.js: POST /revoke, POST /regenerate *)

\* NOW() + INTERVAL '1 year', in seconds
OneYear == 31536000

\* crypto.randomBytes(32).toString('hex'): the n-th key drawn, never one
\* that was drawn before
GenKey(n) == "g" \o ToString(n)

Drawn == Cardinality(DOMAIN issued) - Cardinality(DOMAIN IssuedAtStart)

\* authenticateUser: 0 stands for next(), otherwise the status sent
authenticateUser(bearer) == IF bearer THEN 0 ELSE 401

AuthResponse(op, status, appId) ==
    Send([NoResp EXCEPT !.op = op, !.status = status, !.p = <<appId>>,
                        !.nrows = Len(events)])

\* UPDATE apps SET is_active = false WHERE app_id = $1; the answer is the
\* same whether or not a row matched
Revoke(bearer, appId) ==
    /\ IF authenticateUser(bearer) # 0
         THEN /\ last' = AuthResponse("revoke", authenticateUser(bearer), appId)
              /\ UNCHANGED <<apps, issued>>
         ELSE IF appId = NULL
         THEN /\ last' = AuthResponse("revoke", 400, appId)
              /\ UNCHANGED <<apps, issued>>
         ELSE /\ apps' = { IF r.app_id = appId THEN [r EXCEPT !.is_active = FALSE] ELSE r :
                           r \in apps }
              /\ issued' = [k \in DOMAIN issued |->
                              IF issued[k].app_id = appId /\ issued[k].state = "current"
                              THEN [issued[k] EXCEPT !.state = "revoked"]
                              ELSE issued[k]]
              /\ last' = AuthResponse("revoke", 200, appId)
    /\ UNCHANGED <<events, legacyEvents, cache, now, slots, ackedAt>>

\* (variant: the UPDATE of regenerate leaves is_active as it was)
RegenerateRowKeepsActive(r, hashedKey, t) ==
    [r EXCEPT !.api_key_hash = hashedKey, !.expires_at = t + OneYear]

\* SET api_key_hash = $1, is_active = true, expires_at = NOW() + INTERVAL '1 year'
RegenerateRow(r, hashedKey, t) ==
    [r EXCEPT !.api_key_hash = hashedKey, !.is_active = TRUE,
              !.expires_at = t + OneYear]

\* A new key replaces the stored hash of the application's row; 404 when
\* no row has that app_id
Regenerate(bearer, appId) ==
    /\ Drawn < MaxKeys
    /\ LET newApiKey == GenKey(Drawn + 1)
           rows == { r \in apps : r.app_id = appId }
       IN  IF authenticateUser(bearer) # 0
           THEN /\ last' = AuthResponse("regenerate", authenticateUser(bearer), appId)
                /\ UNCHANGED <<apps, issued>>
           ELSE IF appId = NULL
           THEN /\ last' = AuthResponse("regenerate", 400, appId)
                /\ UNCHANGED <<apps, issued>>
           ELSE IF rows = {}
           THEN /\ last' = AuthResponse("regenerate", 404, appId)
                /\ UNCHANGED <<apps, issued>>
           ELSE /\ apps' = { IF r.app_id = appId
                             THEN RegenerateRow(r, Sha256(newApiKey), now) ELSE r :
                             r \in apps }
                /\ issued' = [k \in DOMAIN issued \cup {newApiKey} |->
                                IF k = newApiKey
                                THEN [app_id |-> appId, state |-> "current",
                                      expires_at |-> now + OneYear]
                                ELSE IF issued[k].app_id = appId
                                THEN [issued[k] EXCEPT !.state = "replaced"]
                                ELSE issued[k]]
                /\ last' = [AuthResponse("regenerate", 200, appId) EXCEPT
                                !.body = [apiKey |-> newApiKey]]
    /\ UNCHANGED <<events, legacyEvents, cache, now, slots, ackedAt>>

----------------------------------------------------------------------------
(* SpecKeys: keys revoked, regenerated and expiring while requests present
   them *)

\* The key of application 2 expires at the first tick
ExpiresSoon(appId, expires_at) == IF appId = "2" THEN TickSeconds ELSE expires_at

InitKeys ==
    /\ events = <<>>
    /\ legacyEvents = <<>>
    /\ cache = <<>>
    /\ now = 0
    /\ slots = [s \in Slots |-> Idle]
    /\ ackedAt = <<>>
    /\ last = NoResp
    /\ apps = { [r EXCEPT !.expires_at = ExpiresSoon(r.app_id, r.expires_at)] :
                r \in AppsRows }
    /\ issued = [k \in DOMAIN IssuedAtStart |->
                   [IssuedAtStart[k] EXCEPT
                       !.expires_at = ExpiresSoon(IssuedAtStart[k].app_id,
                                                  IssuedAtStart[k].expires_at)]]

AppIds == {NULL, "1", "2", "9"}

PresentedKeys ==
    {NULL, "kBogus"} \cup DOMAIN IssuedAtStart \cup { GenKey(n) : n \in 1..MaxKeys }

NextKeys ==
    \/ Tick
    \/ \E bearer \in BOOLEAN, appId \in AppIds : Revoke(bearer, appId)
    \/ \E bearer \in BOOLEAN, appId \in AppIds : Regenerate(bearer, appId)
    \/ \E k \in PresentedKeys : Rejected(k)
    \/ \E k \in PresentedKeys : TimeSeries(k, "pv", NULL, NULL, NULL)

SpecKeys == InitKeys /\ [][NextKeys]_vars

----------------------------------------------------------------------------
(* SpecSeen: visitor stats over the events of one visitor, one per tick *)

\* Tables of at most n rows of one visitor of application 1, in time order
Timeline(devices, n) ==
    UNION { { [i \in 1..m |->
                  [app_id |-> "1", event_name |-> "pv", ip_address |-> "u1",
                   device |-> d[i], timestamp |-> (i - 1) * TickSeconds,
                   metadata |-> NULL]] : d \in [1..m -> devices] } :
            m \in 0..n }

InitSeen ==
    /\ events \in Timeline({NULL, "mobile", "tablet"}, MaxRows)
    /\ ackedAt = [i \in 1..Len(events) |-> 0]
    /\ legacyEvents = <<>>
    /\ cache = <<>>
    /\ now = 0
    /\ slots = [s \in Slots |-> Idle]
    /\ last = NoResp
    /\ apps = AppsRows
    /\ issued = IssuedAtStart

NextSeen ==
    \/ \E s \in Readers, ok \in BOOLEAN : UserStatsGet(s, "kA", "u1", ok)
    \/ \E s \in Readers : UserStatsQuery(s)
    \/ \E s \in Readers, ok \in BOOLEAN : UserStatsFinish(s, ok)

SpecSeen == InitSeen /\ [][NextSeen]_vars

----------------------------------------------------------------------------
(* SpecFail: collects and queries whose statement can fail *)

NextFail ==
    \/ Collects(Writers, {"kA"}, {"u1"}, {"mobile"})
    \/ Summaries({"kA"}, {NULL})
    \/ \E s \in Readers : UserStatsGet(s, "kA", "u1", TRUE)
    \/ \E s \in Readers : UserStatsQuery(s)
    \/ \E s \in Readers : UserStatsFinish(s, TRUE)

SpecFail == Init /\ [][NextFail]_vars

----------------------------------------------------------------------------
(* SpecLive: one tenant's requests with Redis calls that fail or never     *)
(* complete.  PostgreSQL answers every statement, and the event loop runs  *)
(* every continuation whose await has resolved.                            *)

NextLive ==
    \/ \E s \in Writers : CollectInsert(s, "kA", "pv", "/", "u1", "mobile", NULL)
    \/ \E s \in Writers, ok1, ok2 \in BOOLEAN : CollectFinish(s, ok1, ok2)
    \/ \E s \in Readers, ok \in BOOLEAN : SummaryGet(s, "kA", "pv", NULL, NULL, NULL, ok)
    \/ \E s \in Readers : SummaryGetHangs(s, "kA", "pv", NULL, NULL, NULL)
    \/ \E s \in Readers : SummaryQuery(s)
    \/ \E s \in Readers : QueryFails(s)
    \/ \E s \in Readers, ok \in BOOLEAN : SummaryFinish(s, ok)
    \/ \E s \in Readers, ok \in BOOLEAN : UserStatsGet(s, "kA", "u1", ok)
    \/ \E s \in Readers : UserStatsGetHangs(s, "kA", "u1")
    \/ \E s \in Readers : UserStatsQuery(s)
    \/ \E s \in Readers, ok \in BOOLEAN : UserStatsFinish(s, ok)

Resumes(s) ==
    \/ \E ok1, ok2 \in BOOLEAN : CollectFinish(s, ok1, ok2)
    \/ SummaryQuery(s) \/ UserStatsQuery(s) \/ QueryFails(s)
    \/ \E ok \in BOOLEAN : SummaryFinish(s, ok)
    \/ \E ok \in BOOLEAN : UserStatsFinish(s, ok)

SpecLive == Init /\ [][NextLive]_vars /\ \A s \in Slots : WF_vars(Resumes(s))

----------------------------------------------------------------------------
(* Properties *)

NoDates(r) == r.p[2] = NULL /\ r.p[3] = NULL

\* C1: after a collect of (A, E) has succeeded, the next event-summary query
\* for (A, E) with no dates reflects the event, also when a summary was
\* cached before: every such response was computed on a table that held
\* every matching row acknowledged before the query came in.  Stated for
\* requests that run one after the other with every redis.del carried out.
C1_NextSummaryReflectsCollect ==
    (last.op = "summary" /\ last.status = 200 /\ NoDates(last))
        => last.asof >= last.needs

\* C2: an event summary computed on a cache miss has count equal to the
\* number of matching rows.
C2_CountIsNumberOfEvents ==
    (last.op = "summary" /\ last.status = 200 /\ ~last.hit)
        => last.body.count =
             Cardinality(SummaryWhere(SubSeq(events, 1, last.asof), last.app,
                                      last.p[1], last.p[2], last.p[3]))

\* The rows of one application
OwnRows(tbl, appId) == SelectSeq(tbl, LAMBDA row : row.app_id = appId)

\* C3: every aggregate answered for an application, computed or served from
\* the cache, is an aggregate of that application's rows alone: it is a
\* result of the same query on the table with every other application's rows
\* taken out.
C3_TenantIsolation ==
    last.status = 200 =>
        LET own == OwnRows(SubSeq(events, 1, last.asof), last.app) IN
        /\ last.op = "summary" =>
             last.body \in SummaryResponses(own, last.app, last.p[1], last.p[2], last.p[3])
        /\ last.op = "user-stats" =>
             last.body \in UserStatsResponses(own, last.app, last.p[1])
        /\ last.op = "time-series" =>
             last.body = TimeSeriesRows(own, last.app, last.p[1], last.p[2], last.p[3],
                                        last.p[4])
        /\ last.op = "by-device" =>
             last.body \in ByDeviceRows(OwnRows(SubSeq(legacyEvents, 1, last.asof), last.app),
                                        last.app, last.p[1], last.p[2])

\* An aggregate of application 2 served from the cache, computed on a table
\* that holds a row of application 1
C3_Witness ==
    /\ last.status = 200 /\ last.hit /\ last.app = "2"
    /\ \E i \in 1..last.asof : events[i].app_id = "1"

\* C4: a revoked credential is answered 403, an unrecognized one 401, and
\* neither request reaches the events table or the cache.
C4_RevokedForbiddenUnknownUnauthorized ==
    last.op \in {"rejected", "legacy-rejected"} =>
        /\ last.p[1] = "kRevoked" => last.status = 403
        /\ last.p[1] = "kUnknown" => last.status = 401
        /\ ~last.touched

\* C5: a query that comes in more than the TTL after a collect reported
\* success returns a result that includes the collected row, under every
\* interleaving.
C5_WindowBoundedByTtl ==
    (last.op \in {"summary", "user-stats"} /\ last.status = 200)
        => last.asof >= last.needsOld

FiveMinutes == 5 * 60
TenMinutes == 10 * 60

\* C6: summaries are cached for 5 minutes and visitor stats for 10, and no
\* query is answered from an entry older than its TTL.
C6_StalenessCeiling ==
    /\ \A k \in DOMAIN cache :
          cache[k].exp - cache[k].putAt =
             IF cache[k].hist.by[1] = "summary" THEN FiveMinutes ELSE TenMinutes
    /\ last.hit =>
          last.age < IF last.op = "summary" THEN FiveMinutes ELSE TenMinutes

\* Visitor stats served from the cache at an age at which a summary is gone
C6_Witness ==
    last.hit /\ last.op = "user-stats" /\ last.age >= FiveMinutes

C8_HitServesSameTuple ==
    last.hit => last.by = <<last.op, last.app, last.p>>

\* C9: after a collect for application A has succeeded, the next user-stats
\* query for the visitor of the collected event is recomputed and includes
\* the event.  Stated for requests that run one after the other with every
\* redis.del carried out.
C9_NextUserStatsReflectsCollect ==
    (last.op = "user-stats" /\ last.status = 200) => last.asof >= last.needs

\* C10: when a redis.del of a collect fails after the INSERT succeeded, the
\* collect still answers 201 with the id of the row, and the row is kept.
C10_DelFailureKeepsWrite ==
    (last.op = "collect" /\ last.delFailed) =>
        /\ last.status = 201
        /\ last.eventId \in 1..Len(events)
        /\ events[last.eventId].app_id = last.app
        /\ events[last.eventId].event_name = last.p[1]

C10_Witness ==
    last.op = "collect" /\ last.delFailed /\ last.eventId >= 1

\* The results the statement of a cached query can return on the first asof
\* rows of the table
Results(op, appId, p, asof) ==
    IF op = "summary"
    THEN SummaryResponses(SubSeq(events, 1, asof), appId, p[1], p[2], p[3])
    ELSE UserStatsResponses(SubSeq(events, 1, asof), appId, p[1])

\* C11: when the redis.get of an event-summary or user-stats query returns an
\* error, the query is answered 200 with a result computed from the table,
\* never from the cache; it is answered with an error only when the SELECT
\* itself failed and nothing was computed.
C11_GetErrorIsMiss ==
    (last.op \in {"summary", "user-stats"} /\ last.getErr) =>
        \/ /\ last.status = 200 /\ ~last.hit
           /\ last.body \in Results(last.op, last.app, last.p, last.asof)
        \/ last.status = 500 /\ last.by = <<>>

\* A user-stats query answered from the table after its redis.get failed
\* while the cache held an entry under its key
C11_Witness ==
    /\ last.op = "user-stats" /\ last.getErr /\ last.status = 200
    /\ UserStatsCacheKey(last.app, last.p[1]) \in DOMAIN cache
    /\ cache[UserStatsCacheKey(last.app, last.p[1])].putAt < now

\* C12: every collect, event-summary and user-stats request in flight is
\* answered in the end, also when a Redis call fails or never completes.
C12_EveryRequestAnswered ==
    \A s \in Slots : (slots[s].pc # "idle") ~> (slots[s].pc = "idle")

\* A step that sends a response
Responds ==
    \/ last'.op # last.op \/ last'.status # last.status \/ last'.p # last.p
    \/ last'.auth # last.auth \/ last'.nrows # last.nrows
    \/ last'.hit # last.hit \/ last'.asof # last.asof

\* C13: the step that completes a collect of (A, E) leaves unchanged every
\* cache entry of another application and every event-summary entry of A for
\* an event name other than E.
C13_InvalidationIsNarrow ==
    [][\A s \in Writers :
          (slots[s].pc = "inserted" /\ slots'[s].pc = "idle") =>
             \A k \in DOMAIN cache :
                (\/ cache[k].hist.by[2] # slots[s].appId
                 \/ /\ cache[k].hist.by[1] = "summary"
                    /\ cache[k].hist.by[3][1] # slots[s].event)
                => (k \in DOMAIN cache' /\ cache'[k] = cache[k])]_vars

\* C14: a collect whose event name or url is missing is answered 400, on
\* either server, and the step that answers it changes no table and no cache
\* entry; no row without an event name is ever stored.
C14_InvalidCollectHasNoEffect ==
    /\ [](/\ (/\ last.op \in {"collect", "legacy-collect"} /\ Len(last.p) = 2
               /\ (last.p[1] = NULL \/ last.p[2] = NULL))
              => last.status = 400
          /\ \A i \in 1..Len(events) : events[i].event_name # NULL
          /\ \A i \in 1..Len(legacyEvents) :
                legacyEvents[i].event # NULL /\ legacyEvents[i].url # NULL)
    /\ [][(Responds /\ last'.op \in {"collect", "legacy-collect"} /\ last'.status = 400)
            => UNCHANGED <<events, legacyEvents, cache, ackedAt>>]_vars

\* A collect without a url answered 400 while the table holds a row and the
\* cache an entry
C14_Witness ==
    /\ last.op = "collect" /\ last.status = 400 /\ last.p[2] = NULL
    /\ Len(events) >= 1 /\ DOMAIN cache # {}

\* C15: a collect is answered 201 only in a step after the one that stored
\* its row; a cache entry is deleted only in the step that answers a collect
\* whose row is in the table; a collect whose INSERT failed deletes nothing.
C15_AppendBeforeSuccessAndInvalidation ==
    /\ [][(Responds /\ last'.op = "collect" /\ last'.status = 201)
            => (events' = events /\ last'.eventId \in 1..Len(events))]_vars
    /\ [][(now' = now /\ \E k \in DOMAIN cache : k \notin DOMAIN cache')
            => \E s \in Writers :
                 /\ slots[s].pc = "inserted" /\ slots[s].eventId \in 1..Len(events)
                 /\ last'.status = 201 /\ last'.eventId = slots[s].eventId]_vars
    /\ [][(Responds /\ last'.op = "collect" /\ last'.status = 500)
            => cache' = cache]_vars

\* A collect answered 201 after its deletes, with its row in the table and
\* entries left in the cache
C15_Witness ==
    /\ last.op = "collect" /\ last.status = 201 /\ ~last.delFailed
    /\ events[last.eventId].event_name = last.p[1]
    /\ DOMAIN cache # {}

\* The cache key of a cached query
KeyOf(op, appId, p) ==
    IF op = "summary" THEN SummaryCacheKey(appId, p[1], p[2], p[3])
    ELSE UserStatsCacheKey(appId, p[1])

\* The rows a cached query matches among the first asof rows of the table
Matching(op, appId, p, asof) ==
    IF op = "summary"
    THEN SummaryWhere(SubSeq(events, 1, asof), appId, p[1], p[2], p[3])
    ELSE UserStatsWhere(SubSeq(events, 1, asof), appId, p[1])

\* C16: an event-summary or user-stats query computed on a table with no
\* matching row is answered 200 with the zero-valued result (count 0 and an
\* empty histogram; total_events 0 and an empty event_breakdown), and that
\* result is stored in the cache under the key of the query.
C16_ZeroDataResult ==
    (/\ last.op \in {"summary", "user-stats"} /\ last.status = 200 /\ ~last.hit
     /\ Matching(last.op, last.app, last.p, last.asof) = {})
    => /\ last.op = "summary" =>
             /\ last.body.event_name = last.p[1]
             /\ last.body.count = 0 /\ last.body.unique_users = 0
             /\ DOMAIN last.body.device_data = {}
       /\ last.op = "user-stats" =>
             /\ last.body.user_id = last.p[1]
             /\ last.body.total_events = 0
             /\ DOMAIN last.body.event_breakdown = {}
       /\ KeyOf(last.op, last.app, last.p) \in DOMAIN cache
       /\ cache[KeyOf(last.op, last.app, last.p)].data = JsonStringify(last.body)

\* Zero-valued visitor stats computed and cached for one application while
\* the table holds an event of the same visitor under the other application
C16_Witness ==
    /\ last.op = "user-stats" /\ last.status = 200 /\ ~last.hit
    /\ last.asof >= 1 /\ last.body.total_events = 0
    /\ UserStatsCacheKey(last.app, last.p[1]) \in DOMAIN cache

\* The buckets of the rows a time-series request matches
Buckets(r) ==
    { DateTrunc(r.p[4], events[i].timestamp) :
        i \in SummaryWhere(events, r.app, r.p[1], r.p[2], r.p[3]) }

\* C17: a time series holds at most 100 buckets in descending order; of more
\* than 100 matching buckets it holds exactly the 100 most recent.
C17_SeriesCappedAtMostRecent ==
    (last.op = "time-series" /\ last.status = 200) =>
        LET R == { last.body[n].time_bucket : n \in 1..Len(last.body) } IN
        /\ Len(last.body) =
              IF Cardinality(Buckets(last)) > 100 THEN 100 ELSE Cardinality(Buckets(last))
        /\ \A n \in 1..(Len(last.body) - 1) :
              last.body[n].time_bucket > last.body[n + 1].time_bucket
        /\ R \subseteq Buckets(last)
        /\ \A b \in Buckets(last) \ R : \A x \in R : b < x

\* An hourly series over more than 100 hours of events
C17_Witness ==
    /\ last.op = "time-series" /\ last.status = 200
    /\ Cardinality(Buckets(last)) > 100 /\ Len(last.body) = 100

\* C18: a time-series request with a known interval succeeds whichever of
\* start date and end date are given.
C18_SeriesAnyDateCombination ==
    (/\ last.op = "time-series" /\ Len(last.p) = 4
     /\ last.p[4] \in DOMAIN IntervalSeconds
     /\ last.p[2] \in DOMAIN DateValue \cup {NULL}
     /\ last.p[3] \in DOMAIN DateValue \cup {NULL})
    => last.status = 200

\* C19: with queries and collects interleaved in every way, the value under
\* every cache key is one whole result of the query that stored it, on the
\* table as that query read it; a cache hit answers with the stored value
\* as it is, sends no SELECT and writes nothing.
C19_StoredValueIsOneResult ==
    /\ [](\A k \in DOMAIN cache :
             JsonParse(cache[k].data) \in
                Results(cache[k].hist.by[1], cache[k].hist.by[2], cache[k].hist.by[3],
                        cache[k].hist.asof))
    /\ [][(Responds /\ last'.hit) =>
            /\ KeyOf(last'.op, last'.app, last'.p) \in DOMAIN cache
            /\ JsonStringify(last'.body) = cache[KeyOf(last'.op, last'.app, last'.p)].data
            /\ UNCHANGED <<events, cache, slots>>]_vars

\* Two misses of one key answered one after the other with different
\* results, the later of which is the stored value
C19_Witness ==
    /\ last.op = "summary" /\ ~last.hit /\ last.repeat /\ ~last.same
    /\ KeyOf(last.op, last.app, last.p) \in DOMAIN cache
    /\ cache[KeyOf(last.op, last.app, last.p)].data = JsonStringify(last.body)

\* C20: visitor stats computed on a cache miss have total_events equal to
\* the number of the visitor's events in the application, and an
\* event_breakdown that maps each event name of the visitor to the number
\* of the visitor's events of that name.
C20_UserStatsCountsEvents ==
    (last.op = "user-stats" /\ last.status = 200 /\ ~last.hit) =>
        LET tbl == SubSeq(events, 1, last.asof)
            M == UserStatsWhere(tbl, last.app, last.p[1])
            names == { tbl[i].event_name : i \in M }
        IN  /\ last.body.total_events = Cardinality(M)
            /\ DOMAIN last.body.event_breakdown = names
            /\ \A e \in names :
                  last.body.event_breakdown[e] =
                     Cardinality({ i \in M : tbl[i].event_name = e })

\* C21: the device of visitor stats computed on a cache miss is the device
\* of an event with the highest timestamp among the visitor's events that
\* carry a device.
C21_LastSeenDevice ==
    (last.op = "user-stats" /\ last.status = 200 /\ ~last.hit) =>
        LET tbl == SubSeq(events, 1, last.asof)
            D == { i \in UserStatsWhere(tbl, last.app, last.p[1]) : tbl[i].device # NULL }
            newest == { i \in D : \A j \in D : tbl[j].timestamp <= tbl[i].timestamp }
        IN  D # {} => last.body.device \in { tbl[i].device : i \in newest }

\* C22: the device histogram of an event summary computed on a cache miss
\* maps every device of the matching events (unknown for the events without
\* one) to the number of matching events with that device, so its values sum
\* to the number of matching events, and unique_users is the number of
\* distinct visitors among the matching events.
C22_DeviceHistogramCountsEvents ==
    (last.op = "summary" /\ last.status = 200 /\ ~last.hit) =>
        LET tbl == SubSeq(events, 1, last.asof)
            M == SummaryWhere(tbl, last.app, last.p[1], last.p[2], last.p[3])
            dd == last.body.device_data
        IN  /\ DOMAIN dd = { Coalesce(tbl[i].device) : i \in M }
            /\ \A k \in DOMAIN dd :
                   dd[k] = Cardinality({ i \in M : Coalesce(tbl[i].device) = k })
            /\ last.body.unique_users =
                   Cardinality({ tbl[i].ip_address : i \in M } \ {NULL})

\* C23: a query that ends at its SELECT without a result, and a collect that
\* is answered neither 201 nor 400, are answered with a 5xx status in a step
\* that leaves the cache as it was (nothing stored, nothing deleted) and
\* stores no row.
C23_StoreFailureIsFatal ==
    /\ [][\A s \in Readers :
            (slots[s].pc = "query" /\ slots'[s].pc = "idle")
                => /\ last'.op = slots[s].op /\ last'.p = slots[s].p
                   /\ last'.status \in 500..599
                   /\ cache' = cache /\ events' = events]_vars
    /\ [][(Responds /\ last'.op = "collect" /\ last'.status \notin {201, 400})
            => /\ last'.status \in 500..599
               /\ cache' = cache /\ events' = events]_vars

\* A summary whose SELECT failed, answered 500 while the table holds a row
\* and the cache holds entries
C23_Witness ==
    /\ last.op = "summary" /\ last.status = 500
    /\ Len(events) > 0 /\ DOMAIN cache # {}

\* C24: every answered collect, event summary, visitor stats and time series
\* worked on the application its API key resolves to, and a query waiting
\* for its SELECT or its cache write addresses the rows and the cache key of
\* that application.
C24_RequestsStayInOwnApplication ==
    /\ (last.op \in {"collect", "summary", "user-stats", "time-series"}
          /\ last.status \in {200, 201}) => last.app = last.auth
    /\ \A s \in Slots :
          slots[s].pc \in {"query", "computed"} => slots[s].appId = slots[s].auth

\* What validateApiKey is to answer for a key that was handed out: 401 once
\* a regenerate replaced it, 403 while it is revoked or after its expiry
\* time, 0 (accepted) otherwise
LifecycleStatus(k) ==
    IF issued[k].state = "replaced" THEN 401
    ELSE IF issued[k].state = "revoked" THEN 403
    ELSE IF issued[k].expires_at < now THEN 403
    ELSE 0

\* The keys handed out that validateApiKey lets through
AcceptedKeys == { k \in DOMAIN issued : validateApiKey(k, now) = 0 }

\* C25: at every moment a key that was handed out is rejected with 403 when
\* its application was revoked and not regenerated since, rejected with 401
\* when a regenerate replaced it, rejected with 403 when its expiry time has
\* passed, and accepted otherwise (so the key a regenerate returned is
\* accepted, for the application it was made for); at most one key is
\* accepted per application; and every rejection sent and every request let
\* through agrees with that.
C25_CredentialLifecycle ==
    /\ [](\A k \in DOMAIN issued :
            /\ validateApiKey(k, now) = LifecycleStatus(k)
            /\ validateApiKey(k, now) = 0 => ReqAppId(k) = issued[k].app_id)
    /\ [](\A k1, k2 \in DOMAIN issued :
            (validateApiKey(k1, now) = 0 /\ validateApiKey(k2, now) = 0
               /\ issued[k1].app_id = issued[k2].app_id) => k1 = k2)
    /\ [][(Responds /\ last'.op = "rejected" /\ last'.p[1] \in DOMAIN issued)
            => (issued' = issued /\ last'.status = LifecycleStatus(last'.p[1]))]_vars
    /\ [][(Responds /\ last'.op = "time-series")
            => \E k \in DOMAIN issued :
                 LifecycleStatus(k) = 0 /\ issued[k].app_id = last'.auth]_vars
    /\ [][(Responds /\ last'.op = "regenerate" /\ last'.status = 200)
            => last'.body.apiKey \in AcceptedKeys']_vars

\* The first key of application 1 has just been rejected with 401, after a
\* regenerate of the application whose new key is accepted, while the key of
\* application 2 is revoked and past its expiry time
C25_Witness ==
    /\ last.op = "rejected" /\ last.status = 401 /\ last.p = <<"kA">>
    /\ \E k \in DOMAIN issued :
          /\ issued[k].app_id = "1" /\ k # "kA"
          /\ validateApiKey(k, now) = 0
    /\ issued["kB"].state = "revoked" /\ issued["kB"].expires_at < now
    /\ validateApiKey("kB", now) = 403

====
